---------------------------- MODULE Spec2Model ----------------------------
(***************************************************************************)
(* Model of the TestRail coverage dashboard backend (backend/server.js in  *)
(* its successive versions): the section tree builder, the selection       *)
(* closure expansion, the paginated upstream fetches and the coverage      *)
(* aggregation of POST /api/testrail/folders and POST /api/testrail/data.  *)
(***************************************************************************)
EXTENDS Integers, Sequences, FiniteSets, TLC

(***************************************************************************)
(* Bounds of the model.                                                    *)
(***************************************************************************)
\* Section ids are drawn from 1..MaxId; a section list holds at most MaxId
\* sections (ids are distinct); MaxId + 1 is an id no section ever has.
MaxId == 3
\* A list of test cases handed to the aggregation holds at most MaxCases cases.
MaxCases == 4
\* A list of test cases given by its three counts holds at most MaxTotal cases.
MaxTotal == 12
\* The upstream holds at most MaxItems sections, or cases of one section, when
\* a paginated fetch is run on its own: two full pages and a partial one.
MaxItems == 501
\* Section ids of the upstream when a whole coverage request is run.
MaxDataId == 2
\* Section ids of the upstream when two coverage requests run together.
MaxPairId == 1

(***************************************************************************)
(* JavaScript values.  A value that the code tests with ===, !== or        *)
(* truthiness is kept with its type.                                       *)
(***************************************************************************)
Null == [k |-> "null"]
Undefined == [k |-> "undefined"]
Num(n) == [k |-> "number", v |-> n]
Str(s) == [k |-> "string", v |-> s]

IsNum(x) == x.k = "number"

\* JavaScript truthiness of a value: null, undefined, 0 and "" are falsy.
Truthy(x) ==
    CASE x.k = "null" -> FALSE
      [] x.k = "undefined" -> FALSE
      [] x.k = "NaN" -> FALSE
      [] x.k = "number" -> x.v # 0
      [] x.k = "string" -> x.v # ""
      [] OTHER -> TRUE

Range(s) == {s[i] : i \in 1..Len(s)}

(***************************************************************************)
(* Sections.  A section is {id, parent_id}: id a positive integer,         *)
(* parent_id null, 0 or an integer (possibly the id of no section).        *)
(***************************************************************************)
SectionIds == 1..MaxId
ParentIds == {Null} \cup {Num(p) : p \in 0..(MaxId + 1)}
SectionRecs == [id : SectionIds, parent_id : ParentIds]

DistinctIds(secs) ==
    \A i, j \in 1..Len(secs) : secs[i].id = secs[j].id => i = j

\* The flat section lists the upstream can return: any order, distinct ids.
SectionLists ==
    {secs \in UNION {[1..n -> SectionRecs] : n \in 0..MaxId} : DistinctIds(secs)}

IdsOf(secs) == {secs[i].id : i \in 1..Len(secs)}

VARIABLES
    sections,   \* the flat section list returned by the upstream
    tree,       \* the forest built by buildTree, or NoTree before the call
    folderIds,  \* req.body.folderIds of the coverage request
    closure,    \* allFolderIdsSet of the coverage request, or NoClosure
    allTestCases, \* the concatenated cases the aggregation runs over
    result,     \* the CoverageResult of the aggregation, or NoResult
    caseCount,  \* upstream: section id -> number of cases of that section
    secFetch,   \* the fetchAllSections call in progress (its local variables)
    caseFetch,  \* the fetchTestCasesForSection calls, in allFolderIds order
    calls,      \* the upstream requests issued so far, in order
    body,       \* req.body of the coverage request
    pc,         \* where the coverage handler stands
    response,   \* the response sent (status 0: none yet)
    parked,     \* a second coverage request in progress, its handler waiting
                \* at an await: the variables of its own call, or NoRequest
    checked,    \* frontend: the values of the checked nodes of the section tree
    chartsData, \* frontend: the charts shown, the newest first
    loadingChart, \* frontend: whether the loading indicator is shown
    editingIndex, \* frontend: the index of the chart whose rename form is
                \* shown, or null
    draftName,  \* frontend: the text of the rename form
    builds,     \* frontend: the buildChart calls that wait for their response,
                \* each with the chartsData of the render that made the call
    sent,       \* frontend: the number of buildChart requests sent so far
    nextObj,    \* frontend: the number of chart objects created so far
    built,      \* history: the charts whose buildChart request succeeded
    removed,    \* history: the charts removed with removeChart
    edit        \* history: the chart startEditingName was last called for and
                \* the chart that the setChartName after it changed

pureVars == <<sections, tree, folderIds, closure, allTestCases, result>>
fetchVars == <<caseCount, secFetch, caseFetch, calls>>
handlerVars == <<body, pc, response, parked>>
backendVars == <<pureVars, fetchVars, handlerVars>>
uiVars == <<checked, chartsData, loadingChart, editingIndex, draftName>>
buildVars == <<builds, sent, nextObj>>
historyVars == <<built, removed, edit>>
frontendVars == <<uiVars, buildVars, historyVars>>
vars == <<backendVars, frontendVars>>

NoTree == [built |-> FALSE]
NoClosure == [done |-> FALSE]
NoResult == [done |-> FALSE]
NoFetch == [state |-> "idle"]
NoResponse == [status |-> 0]
NoRequest == [pc |-> "off"]
NoEdit == [target |-> 0, changed |-> 0]

(***************************************************************************)
(* buildTree (display tree of POST /api/testrail/folders).                 *)
(* A node is kept by reference in sectionMap; the model keeps a node as    *)
(* sectionMap[id] and a reference to it as its id.                         *)
(***************************************************************************)
\* The position of the last section of the list that has the id k: the
\* assignment that a forEach over the list leaves in a map keyed by id.
LastWithId(secs, k) ==
    CHOOSE i \in 1..Len(secs) :
        /\ secs[i].id = k
        /\ \A j \in (i + 1)..Len(secs) : secs[j].id # k

\* First pass: sectionMap[section.id] = { ...section, children: [] }.
InitSectionMap(secs) ==
    [k \in IdsOf(secs) |->
        LET section == secs[LastWithId(secs, k)]
        IN  [id |-> section.id, parent_id |-> section.parent_id,
             children |-> << >>]]

\* sectionMap[key] as a truth value: the key must be a number held by the map.
HasNode(sectionMap, key) == IsNum(key) /\ key.v \in DOMAIN sectionMap

\* A variant of AttachSection that drops a section whose parent is unknown.
AttachSection_dropOrphan(acc, section) ==
    IF section.parent_id # Null /\ section.parent_id # Num(0)
    THEN IF HasNode(acc.sectionMap, section.parent_id)
         THEN [acc EXCEPT !.sectionMap[section.parent_id.v].children =
                              Append(@, section.id)]
         ELSE acc
    ELSE [acc EXCEPT !.roots = Append(@, section.id)]

\* A variant of AttachSection that also lists every attached child as a root.
AttachSection_alsoRoot(acc, section) ==
    IF section.parent_id # Null /\ section.parent_id # Num(0)
       /\ HasNode(acc.sectionMap, section.parent_id)
    THEN [acc EXCEPT !.sectionMap[section.parent_id.v].children =
                         Append(@, section.id),
                     !.roots = Append(@, section.id)]
    ELSE [acc EXCEPT !.roots = Append(@, section.id)]

\* A variant of AttachSection that puts a child or a root in front of those
\* already there (unshift in place of push).
AttachSection_unshift(acc, section) ==
    IF section.parent_id # Null /\ section.parent_id # Num(0)
       /\ HasNode(acc.sectionMap, section.parent_id)
    THEN [acc EXCEPT !.sectionMap[section.parent_id.v].children =
                         <<section.id>> \o @]
    ELSE [acc EXCEPT !.roots = <<section.id>> \o @]

\* Second pass, one section: attach to the parent's children or to roots.
AttachSection(acc, section) ==
    IF section.parent_id # Null /\ section.parent_id # Num(0)
       /\ HasNode(acc.sectionMap, section.parent_id)
    THEN [acc EXCEPT !.sectionMap[section.parent_id.v].children =
                         Append(@, section.id)]
    ELSE [acc EXCEPT !.roots = Append(@, section.id)]

\* Second pass over secs[lo..hi], from lo to hi.  The range is halved and
\* the state reached so far is computed before the rest is visited, which
\* keeps the evaluation shallow on lists of several pages.
RECURSIVE AttachAll(_, _, _, _)
AttachAll(acc, secs, lo, hi) ==
    IF acc = acc /\ lo > hi THEN acc
    ELSE IF lo = hi THEN AttachSection(acc, secs[lo])
    ELSE LET mid == (lo + hi) \div 2
         IN  AttachAll(AttachAll(acc, secs, lo, mid), secs, mid + 1, hi)

buildTree(secs) ==
    LET sectionMap == InitSectionMap(secs)
        acc == AttachAll([sectionMap |-> sectionMap, roots |-> << >>], secs,
                         1, Len(secs))
    IN  [built |-> TRUE, roots |-> acc.roots, sectionMap |-> acc.sectionMap]

\* Pre-order flattening of the forest as it is serialised from the roots.
RECURSIVE FlattenNodes(_, _)
FlattenNodes(sectionMap, ids) ==
    IF ids = << >> THEN << >>
    ELSE <<Head(ids)>>
         \o FlattenNodes(sectionMap, sectionMap[Head(ids)].children)
         \o FlattenNodes(sectionMap, Tail(ids))

Flatten(t) == FlattenNodes(t.sectionMap, t.roots)

(***************************************************************************)
(* The parent relation of a section list, stated independently of the      *)
(* code: p is the parent of c when a section c has parent_id p, p # 0.     *)
(***************************************************************************)
ParentPtr(secs) ==
    {<<secs[i].id, secs[i].parent_id.v>> :
        i \in {j \in 1..Len(secs) : Truthy(secs[j].parent_id)}}

\* Ids reached from id by one or more parent pointers.
RECURSIVE Reach(_, _, _)
Reach(rel, frontier, seen) ==
    LET next == {e[2] : e \in {r \in rel : r[1] \in frontier}} \ seen
    IN  IF next = {} THEN seen ELSE Reach(rel, next, seen \cup next)

AncestorIds(secs, id) == Reach(ParentPtr(secs), {id}, {})

Acyclic(secs) == \A id \in IdsOf(secs) : id \notin AncestorIds(secs, id)

(***************************************************************************)
(* Closure expansion of POST /api/testrail/data: the selected ids, their   *)
(* ancestors and their descendants.                                        *)
(***************************************************************************)
NaN == [k |-> "NaN"]

\* Strings that are the decimal form of an id the model uses.
DecimalOf(n) == ToString(n)
NumericRange == 0..(MaxId + 1)

\* Number(x): a number is itself, a decimal string its value, null is 0,
\* anything else NaN.
ToNumber(x) ==
    CASE x.k = "number" -> x
      [] x.k = "string" ->
            IF x.v = "" THEN Num(0)
            ELSE IF \E n \in NumericRange : DecimalOf(n) = x.v
                 THEN Num(CHOOSE n \in NumericRange : DecimalOf(n) = x.v)
                 ELSE NaN
      [] x.k = "null" -> Num(0)
      [] OTHER -> NaN

RECURSIVE MapNumber(_)
MapNumber(ids) ==
    IF ids = << >> THEN << >>
    ELSE <<ToNumber(Head(ids))>> \o MapNumber(Tail(ids))

\* parentMap[section.id] = section.parent_id, in list order.
BuildParentMap(secs) ==
    [k \in IdsOf(secs) |-> secs[LastWithId(secs, k)].parent_id]

\* parentMap[key]: undefined when the key is not a property of the map.
ParentOf(parentMap, key) ==
    IF IsNum(key) /\ key.v \in DOMAIN parentMap THEN parentMap[key.v]
    ELSE Undefined

\* A variant of SetAdd for an array in place of the Set: push.
SetAdd_push(set, x) == Append(set, x)

\* Set.prototype.add on a Set kept in insertion order.
SetAdd(set, x) == IF x \in Range(set) THEN set ELSE Append(set, x)

RECURSIVE AncestorWalk(_, _, _, _)

\* A variant of AncestorWalk that adds current before it tests it (do-while):
\* the value that ends the walk is added too.
AncestorWalk_addFirst(parentMap, current, set, visited) ==
    IF ~(Truthy(current) /\ current # Num(0))
    THEN [diverged |-> FALSE, set |-> SetAdd(set, current)]
    ELSE IF current \in visited
         THEN [diverged |-> TRUE, set |-> set]
         ELSE AncestorWalk(parentMap, ParentOf(parentMap, current),
                           SetAdd(set, current), visited \cup {current})

\* A variant of AncestorWalk that adds the parent and stops there.
AncestorWalk_parentOnly(parentMap, current, set, visited) ==
    IF ~(Truthy(current) /\ current # Num(0))
    THEN [diverged |-> FALSE, set |-> set]
    ELSE [diverged |-> FALSE, set |-> SetAdd(set, current)]

\* while (current && current !== 0) { set.add(current); current = parentMap[current]; }
\* The loop has no other state than current: when it meets a value of current
\* a second time it never ends (diverged).
AncestorWalk(parentMap, current, set, visited) ==
    IF ~(Truthy(current) /\ current # Num(0))
    THEN [diverged |-> FALSE, set |-> set]
    ELSE IF current \in visited
         THEN [diverged |-> TRUE, set |-> set]
         ELSE AncestorWalk(parentMap, ParentOf(parentMap, current),
                           SetAdd(set, current), visited \cup {current})

\* selectedIds.forEach(id => { ...ancestor walk from parentMap[id]... })
RECURSIVE AddAncestors(_, _, _, _)
AddAncestors(parentMap, selectedIds, i, set) ==
    IF i > Len(selectedIds) THEN [diverged |-> FALSE, set |-> set]
    ELSE LET w == AncestorWalk(parentMap, ParentOf(parentMap, selectedIds[i]),
                               set, {})
         IN  IF w.diverged THEN w
             ELSE AddAncestors(parentMap, selectedIds, i + 1, w.set)

\* A variant of DescendantWalk that looks at the parent and stops there.
DescendantWalk_parentOnly(parentMap, selectedIds, current, visited) ==
    IF ~(Truthy(current) /\ current # Num(0)) THEN "none"
    ELSE IF current \in Range(selectedIds) THEN "selected"
    ELSE "none"

\* while (current && current !== 0) { if (selectedIds.includes(current)) {add; break;}
\*                                    current = parentMap[current]; }
RECURSIVE DescendantWalk(_, _, _, _)
DescendantWalk(parentMap, selectedIds, current, visited) ==
    IF ~(Truthy(current) /\ current # Num(0)) THEN "none"
    ELSE IF current \in Range(selectedIds) THEN "selected"
    ELSE IF current \in visited THEN "diverged"
    ELSE DescendantWalk(parentMap, selectedIds, ParentOf(parentMap, current),
                        visited \cup {current})

\* allSections.forEach(section => { ...descendant walk from parentMap[section.id]... })
\* The body of the forEach for one section.
AddDescendant(parentMap, selectedIds, section, set) ==
    LET w == DescendantWalk(parentMap, selectedIds,
                            ParentOf(parentMap, Num(section.id)), {})
    IN  IF w = "diverged" THEN [diverged |-> TRUE, set |-> set]
        ELSE [diverged |-> FALSE,
              set |-> IF w = "selected" THEN SetAdd(set, Num(section.id))
                      ELSE set]

\* The forEach over secs[lo..hi], from lo to hi, from the state acc; a walk
\* that never ends leaves no section after it visited.  The range is halved
\* as in AttachAll.
RECURSIVE AddDescendants(_, _, _, _, _, _)
AddDescendants(parentMap, selectedIds, secs, acc, lo, hi) ==
    IF acc.diverged \/ lo > hi THEN acc
    ELSE IF lo = hi
         THEN AddDescendant(parentMap, selectedIds, secs[lo], acc.set)
    ELSE LET mid == (lo + hi) \div 2
         IN  AddDescendants(parentMap, selectedIds, secs,
                            AddDescendants(parentMap, selectedIds, secs, acc,
                                           lo, mid),
                            mid + 1, hi)

RECURSIVE AddSelected(_, _)
AddSelected(selectedIds, i) ==
    IF i = 0 THEN << >>
    ELSE SetAdd(AddSelected(selectedIds, i - 1), selectedIds[i])

\* Steps 2 and 3 of the handler: allFolderIdsSet for a section list and the
\* folderIds of the request.
ExpandClosure(allSections, ids) ==
    LET parentMap == BuildParentMap(allSections)
        selectedIds == MapNumber(ids)
        own == AddSelected(selectedIds, Len(selectedIds))
        anc == AddAncestors(parentMap, selectedIds, 1, own)
    IN  IF anc.diverged THEN [diverged |-> TRUE, set |-> anc.set]
        ELSE AddDescendants(parentMap, selectedIds, allSections, anc, 1,
                            Len(allSections))

(***************************************************************************)
(* buildTree(sections, parentId), the recursive tree builder of the first  *)
(* version of POST /api/testrail/folders.  It makes the nodes anew: a node *)
(* holds its children, not references to them.                             *)
(***************************************************************************)
\* x == y of JavaScript for null, undefined, numbers and decimal strings:
\* null and undefined equal each other and nothing else; two values of one
\* type are equal when they are the same value; a number and a string are
\* compared as numbers.
LooseEq(x, y) ==
    IF x.k \in {"null", "undefined"} THEN y.k \in {"null", "undefined"}
    ELSE IF y.k \in {"null", "undefined"} THEN FALSE
    ELSE IF x.k = y.k THEN x = y
    ELSE ToNumber(x) # NaN /\ ToNumber(x) = ToNumber(y)

\* sections.filter(section => section.parent_id == parentId)
\*         .map(section => ({ id, name, parent_id,
\*                            children: buildTree(sections, section.id) }))
RECURSIVE buildTreeFrom(_, _)
buildTreeFrom(secs, parentId) ==
    LET IsChild(section) == LooseEq(section.parent_id, parentId)
        picked == SelectSeq(secs, IsChild)
    IN  [i \in 1..Len(picked) |->
            [id |-> picked[i].id,
             parent_id |-> picked[i].parent_id,
             children |-> buildTreeFrom(secs, Num(picked[i].id))]]

(***************************************************************************)
(* The upstream (TestRail) and the two paginated fetches.                  *)
(***************************************************************************)
\* const limit = 250 of fetchAllSections and of fetchTestCasesForSection.
sectionsLimit == 250
casesLimit == 250

Min(a, b) == IF a < b THEN a ELSE b

\* The requests the fetches issue: the operation and its url parameters.
SectionsCall(offset) ==
    [op |-> "get_sections", offset |-> offset, limit |-> sectionsLimit]
CasesCall(sectionId, offset) ==
    [op |-> "get_cases", section_id |-> sectionId, offset |-> offset,
     limit |-> casesLimit]

\* The page of a list that an offset and a limit select.
Page(items, offset, lim) ==
    SubSeq(items, offset + 1, Min(offset + lim, Len(items)))

TitleOf(i) == "case " \o ToString(i)

\* The cases the upstream holds for a section: caseCount[id] cases, their
\* automation values going round the three codes.
UpstreamCases(counts, id) ==
    [i \in 1..counts[id] |->
        [id |-> 1000 * id + i, title |-> TitleOf(1000 * id + i),
         custom_automation |-> Num(1 + (i % 3))]]

\* Payloads of a response: a bare array, or an object with one field.
ArrayOf(items) == [k |-> "array", items |-> items]
ObjectWith(field, items) == [k |-> "object", field |-> field, items |-> items]
IsArray(x) == x.k = "array"

\* data[name] of a payload.
Field(data, name) ==
    IF data.k = "object" /\ data.field = name THEN ArrayOf(data.items)
    ELSE Undefined

\* What the upstream can answer to a request for a page: the page in an
\* object under the field of the operation, the page as a bare array, an
\* object without that field, or a failure (network error, 4xx, 5xx).
Shapes == {"object", "array", "other", "error"}
Answer(shape, field, page) ==
    CASE shape = "object" -> [ok |-> TRUE, data |-> ObjectWith(field, page)]
      [] shape = "array" -> [ok |-> TRUE, data |-> ArrayOf(page)]
      [] shape = "other" -> [ok |-> TRUE, data |-> ObjectWith("error", << >>)]
      [] OTHER -> [ok |-> FALSE]

AnswerSections(secs, call, shape) ==
    Answer(shape, "sections", Page(secs, call.offset, call.limit))

\* The upstream knows the cases of the sections it holds, and fails for any
\* other section id.
AnswerCases(counts, call, shape) ==
    IF IsNum(call.section_id) /\ call.section_id.v \in DOMAIN counts
    THEN Answer(shape, "cases",
                Page(UpstreamCases(counts, call.section_id.v),
                     call.offset, call.limit))
    ELSE [ok |-> FALSE]

\* fetchAllSections up to its first await.
StartSections == [state |-> "pending", allSections |-> << >>, offset |-> 0]

\* A variant of ContinueSections that goes on until a page is empty.
ContinueSections_untilEmpty(fetched) == fetched > 0

\* while (fetched === limit) of fetchAllSections.
ContinueSections(fetched) == fetched = sectionsLimit

\* A variant of SectionsIteration that returns the pages fetched so far when
\* a page fails.
SectionsIteration_partial(f, answer) ==
    IF ~answer.ok \/ ~IsArray(Field(answer.data, "sections"))
    THEN [f EXCEPT !.state = "resolved"]
    ELSE LET sectionsBatch == Field(answer.data, "sections")
             fetched == Len(sectionsBatch.items)
         IN  [state |-> IF ContinueSections(fetched)
                        THEN "pending" ELSE "resolved",
              allSections |-> f.allSections \o sectionsBatch.items,
              offset |-> f.offset + fetched]

\* One iteration of the do-while of fetchAllSections, from the answer of the
\* upstream to the next await, the return or the throw.
SectionsIteration(f, answer) ==
    IF ~answer.ok THEN [f EXCEPT !.state = "rejected"]
    ELSE LET sectionsBatch == Field(answer.data, "sections")
         IN  IF ~Truthy(sectionsBatch) \/ ~IsArray(sectionsBatch)
             THEN [f EXCEPT !.state = "rejected"]
             ELSE LET fetched == Len(sectionsBatch.items)
                  IN  [state |-> IF ContinueSections(fetched)
                                 THEN "pending" ELSE "resolved",
                       allSections |-> f.allSections \o sectionsBatch.items,
                       offset |-> f.offset + fetched]

\* fetchTestCasesForSection(sectionId) up to its first await.
StartCases(sectionId) ==
    [sectionId |-> sectionId, state |-> "pending", allTestCases |-> << >>,
     offset |-> 0]

\* A variant of ContinueCases that never asks for a second page.
ContinueCases_firstPageOnly(fetched) == FALSE

\* while (fetched === limit) of fetchTestCasesForSection.
ContinueCases(fetched) == fetched = casesLimit

\* One iteration of the do-while of fetchTestCasesForSection.
CasesIteration(f, answer) ==
    IF ~answer.ok THEN [f EXCEPT !.state = "rejected"]
    ELSE LET data == answer.data
             batch == IF IsArray(data) THEN data
                      ELSE IF Truthy(data) /\ IsArray(Field(data, "cases"))
                           THEN Field(data, "cases")
                           ELSE Undefined
         IN  IF batch = Undefined THEN [f EXCEPT !.state = "rejected"]
             ELSE LET fetched == Len(batch.items)
                  IN  [sectionId |-> f.sectionId,
                       state |-> IF ContinueCases(fetched)
                                 THEN "pending" ELSE "resolved",
                       allTestCases |-> f.allTestCases \o batch.items,
                       offset |-> f.offset + fetched]

(***************************************************************************)
(* Aggregation of POST /api/testrail/data: classification of the cases,    *)
(* counts, percentages.                                                    *)
(***************************************************************************)
Yes == "Yes"
Candidate == "Automation Candidate"
No == "No"
Categories == {Yes, Candidate, No}

\* A variant of Classify that takes the code as it arrives, without Number().
Classify_noCoercion(testCase) ==
    LET automationValue == testCase.custom_automation
    IN  IF automationValue = Num(1) THEN Yes
        ELSE IF automationValue = Num(3) THEN Candidate
        ELSE IF automationValue = Num(2) THEN No
        ELSE No

\* A variant of Classify whose last else counts the case as a candidate.
Classify_otherIsCandidate(testCase) ==
    LET automationValue == ToNumber(testCase.custom_automation)
    IN  IF automationValue = Num(1) THEN Yes
        ELSE IF automationValue = Num(3) THEN Candidate
        ELSE IF automationValue = Num(2) THEN No
        ELSE Candidate

\* const automationValue = Number(testCase.custom_automation) and the if chain.
Classify(testCase) ==
    LET automationValue == ToNumber(testCase.custom_automation)
    IN  IF automationValue = Num(1) THEN Yes
        ELSE IF automationValue = Num(3) THEN Candidate
        ELSE IF automationValue = Num(2) THEN No
        ELSE No

Entry(testCase) == [id |-> testCase.id, title |-> testCase.title]

\* The cases of allTestCases that the if chain of the forEach sends to
\* category c, in the order of the list.
CasesIn(cases, c) ==
    LET InCategory(testCase) == Classify(testCase) = c
    IN  SelectSeq(cases, InCategory)

\* The entries the forEach pushes for category c, in the order of the list.
Entries(cases, c) ==
    LET picked == CasesIn(cases, c)
    IN  [i \in 1..Len(picked) |-> Entry(picked[i])]

\* A variant of CountAll whose last else counts the case in No and does not
\* push it to noTests: only the cases of code 2 are listed.
CountAll_elseNotListed(cases) ==
    LET IsTwo(testCase) == ToNumber(testCase.custom_automation) = Num(2)
        picked == SelectSeq(cases, IsTwo)
    IN  [totalCounts |-> [c \in Categories |-> Len(CasesIn(cases, c))],
         candidateTests |-> Entries(cases, Candidate),
         noTests |-> [i \in 1..Len(picked) |-> Entry(picked[i])]]

\* allTestCases.forEach: every case adds one to the count of its category;
\* the cases of Candidate and No are pushed to their lists.
CountAll(cases) ==
    [totalCounts |-> [c \in Categories |-> Len(CasesIn(cases, c))],
     candidateTests |-> Entries(cases, Candidate),
     noTests |-> Entries(cases, No)]

\* A number of tenths written with one decimal: 255 is "25.5".
Tenths(n) == ToString(n \div 10) \o "." \o ToString(n % 10)

\* A variant of ToFixed1 that cuts the digits after the first decimal.
ToFixed1_truncate(count, total) == Str(Tenths((1000 * count) \div total))

\* A variant of ToFixed1 that rounds up to the next tenth.
ToFixed1_roundUp(count, total) ==
    Str(Tenths((1000 * count + total - 1) \div total))

\* (count / total * 100).toFixed(1): the nearest number of tenths, the larger
\* one on a tie, as a string.  The quotient is taken exactly; the double
\* arithmetic of the code gives the same digits for the totals of the model.
ToFixed1(count, total) ==
    Str(Tenths((2000 * count + total) \div (2 * total)))

\* A variant of Percentages without the test total > 0: 0 / 0 * 100 is NaN,
\* and NaN.toFixed(1) is "NaN".
Percentages_noGuard(totalCounts, total) ==
    [c \in Categories |->
        IF total = 0 THEN Str("NaN") ELSE ToFixed1(totalCounts[c], total)]

\* const percentages = total > 0 ? {...} : { Yes: 0, ... }
Percentages(totalCounts, total) ==
    IF total > 0
    THEN [c \in Categories |-> ToFixed1(totalCounts[c], total)]
    ELSE [c \in Categories |-> Num(0)]

\* Step 5 of the handler and the body of the response.
Aggregate(cases) ==
    LET acc == CountAll(cases)
        total == acc.totalCounts[Yes] + acc.totalCounts[Candidate]
                    + acc.totalCounts[No]
        percentages == Percentages(acc.totalCounts, total)
    IN  [totalCounts |-> acc.totalCounts,
         percentages |-> percentages,
         overallCoverage |-> percentages[Yes],
         candidateTests |-> acc.candidateTests,
         noTests |-> acc.noTests]

\* The values of custom_automation the upstream sends: the three codes as
\* numbers or strings, other numbers, other strings, null, or no field.
AutomationValues ==
    {Num(1), Num(2), Num(3), Num(4), Str("1"), Str("2"), Str("3"), Str("x"),
     Null, Undefined}

\* The automation values of a list of y cases of code 1, then c of code 3,
\* then n of code 2.
BlockCodes(y, c, n) ==
    [i \in 1..(y + c + n) |->
        IF i <= y THEN Num(1) ELSE IF i <= y + c THEN Num(3) ELSE Num(2)]

\* The list of n cases with the given automation values; ids are 1..n.
CaseList(codes) ==
    [i \in 1..Len(codes) |-> [id |-> i, title |-> TitleOf(i),
                              custom_automation |-> codes[i]]]

TreeIdle == tree = NoTree
ClosureIdle == closure = NoClosure
AggregateIdle == allTestCases = << >> /\ result = NoResult
FetchIdle ==
    /\ caseCount = << >>
    /\ secFetch = NoFetch
    /\ caseFetch = << >>
    /\ calls = << >>
HandlerIdle ==
    /\ body = Undefined
    /\ pc = "off"
    /\ response = NoResponse
    /\ parked = NoRequest
\* The state of App when it is mounted: the initial values of useState.
FrontendIdle ==
    /\ checked = << >>
    /\ chartsData = << >>
    /\ loadingChart = FALSE
    /\ editingIndex = Null
    /\ draftName = ""
    /\ builds = {}
    /\ sent = 0
    /\ nextObj = 0
    /\ built = {}
    /\ removed = {}
    /\ edit = NoEdit

(***************************************************************************)
(* Specification of the tree builder: the upstream returns any section     *)
(* list and the folders endpoint builds the tree from it.                  *)
(***************************************************************************)
InitTree ==
    /\ sections \in SectionLists
    /\ tree = NoTree
    /\ folderIds = << >>
    /\ closure = NoClosure
    /\ AggregateIdle
    /\ FetchIdle
    /\ HandlerIdle
    /\ FrontendIdle

FoldersBuildTree ==
    /\ ~tree.built
    /\ tree' = buildTree(sections)
    /\ UNCHANGED <<sections, folderIds, closure, allTestCases, result>>
    /\ UNCHANGED <<fetchVars, handlerVars>>
    /\ UNCHANGED frontendVars

NextTree == FoldersBuildTree

SpecTree == InitTree /\ [][NextTree]_vars

(***************************************************************************)
(* Specification of the recursive tree builder: the upstream returns any   *)
(* section list and the first version of the folders endpoint builds the   *)
(* tree from it with buildTree(sections, null).                            *)
(***************************************************************************)
FoldersBuildTreeFrom ==
    /\ ~tree.built
    /\ tree' = [built |-> TRUE, nodes |-> buildTreeFrom(sections, Null)]
    /\ UNCHANGED <<sections, folderIds, closure, allTestCases, result>>
    /\ UNCHANGED <<fetchVars, handlerVars>>
    /\ UNCHANGED frontendVars

NextTreeFrom == FoldersBuildTreeFrom

SpecTreeFrom == InitTree /\ [][NextTreeFrom]_vars

(***************************************************************************)
(* Specification of the closure expansion: any section list, given in      *)
(* ascending id order (the expansion reads the list through parentMap, and *)
(* adds to a set), and any selection of ids, sent as numbers or as decimal *)
(* strings.                                                                *)
(***************************************************************************)
OrderedSectionLists ==
    {secs \in SectionLists :
        \A i \in 1..(Len(secs) - 1) : secs[i].id < secs[i + 1].id}

RECURSIVE SortedSeq(_)
SortedSeq(S) ==
    IF S = {} THEN << >>
    ELSE LET m == CHOOSE x \in S : \A y \in S : x <= y
         IN  <<m>> \o SortedSeq(S \ {m})

FolderIdLists ==
    LET picks == {SortedSeq(S) : S \in SUBSET (1..(MaxId + 1))}
    IN  {[i \in 1..Len(q) |-> Num(q[i])] : q \in picks}
        \cup {[i \in 1..Len(q) |-> Str(DecimalOf(q[i]))] : q \in picks}

InitClosure ==
    /\ sections \in OrderedSectionLists
    /\ folderIds \in FolderIdLists
    /\ closure = NoClosure
    /\ tree = NoTree
    /\ AggregateIdle
    /\ FetchIdle
    /\ HandlerIdle
    /\ FrontendIdle

DataExpandClosure ==
    /\ ~closure.done
    /\ closure' = [done |-> TRUE] @@ ExpandClosure(sections, folderIds)
    /\ UNCHANGED <<sections, folderIds, tree, allTestCases, result>>
    /\ UNCHANGED <<fetchVars, handlerVars>>
    /\ UNCHANGED frontendVars

NextClosure == DataExpandClosure

SpecClosure == InitClosure /\ [][NextClosure]_vars

(***************************************************************************)
(* Specification of the aggregation: any list of fetched cases.            *)
(***************************************************************************)
InitAggregate ==
    /\ \/ \E n \in 0..MaxCases : \E codes \in [1..n -> AutomationValues] :
             allTestCases = CaseList(codes)
       \/ \E y, c, n \in 0..MaxTotal :
             /\ y + c + n <= MaxTotal
             /\ allTestCases = CaseList(BlockCodes(y, c, n))
    /\ result = NoResult
    /\ sections = << >>
    /\ folderIds = << >>
    /\ TreeIdle
    /\ ClosureIdle
    /\ FetchIdle
    /\ HandlerIdle
    /\ FrontendIdle

DataAggregate ==
    /\ ~result.done
    /\ result' = [done |-> TRUE] @@ Aggregate(allTestCases)
    /\ UNCHANGED <<sections, folderIds, tree, closure, allTestCases>>
    /\ UNCHANGED <<fetchVars, handlerVars>>
    /\ UNCHANGED frontendVars

NextAggregate == DataAggregate

SpecAggregate == InitAggregate /\ [][NextAggregate]_vars

(***************************************************************************)
(* Specification of the paginated fetches run on their own against an      *)
(* upstream that holds any number of sections, or of cases of section 1.   *)
(***************************************************************************)
RootSections(n) == [i \in 1..n |-> [id |-> i, parent_id |-> Null]]

InitPages ==
    /\ \E n \in 0..MaxItems :
          \/ /\ sections = RootSections(n)
             /\ caseCount = << >>
             /\ secFetch = StartSections
             /\ caseFetch = << >>
             /\ calls = <<SectionsCall(0)>>
          \/ /\ sections = RootSections(1)
             /\ caseCount = <<n>>
             /\ secFetch = NoFetch
             /\ caseFetch = <<StartCases(Num(1))>>
             /\ calls = <<CasesCall(Num(1), 0)>>
    /\ folderIds = << >>
    /\ TreeIdle
    /\ ClosureIdle
    /\ AggregateIdle
    /\ HandlerIdle
    /\ FrontendIdle

\* The upstream answers the request of fetchAllSections; the loop runs to its
\* next request, its return or its throw.
PagesSectionsAnswer ==
    /\ secFetch.state = "pending"
    /\ \E shape \in Shapes :
          /\ secFetch' = SectionsIteration(
                              secFetch,
                              AnswerSections(sections, calls[Len(calls)], shape))
          /\ calls' = IF secFetch'.state = "pending"
                      THEN Append(calls, SectionsCall(secFetch'.offset))
                      ELSE calls
    /\ UNCHANGED <<pureVars, caseCount, caseFetch, handlerVars>>
    /\ UNCHANGED frontendVars

\* The upstream answers the request of fetchTestCasesForSection(1).
PagesCasesAnswer ==
    /\ caseFetch # << >>
    /\ caseFetch[1].state = "pending"
    /\ \E shape \in Shapes :
          /\ caseFetch' = <<CasesIteration(
                               caseFetch[1],
                               AnswerCases(caseCount, calls[Len(calls)], shape))>>
          /\ calls' = IF caseFetch'[1].state = "pending"
                      THEN Append(calls, CasesCall(caseFetch'[1].sectionId,
                                                   caseFetch'[1].offset))
                      ELSE calls
    /\ UNCHANGED <<pureVars, caseCount, secFetch, handlerVars>>
    /\ UNCHANGED frontendVars

NextPages == PagesSectionsAnswer \/ PagesCasesAnswer

SpecPages == InitPages /\ [][NextPages]_vars

(***************************************************************************)
(* Specification of a whole coverage request, POST /api/testrail/data: the *)
(* validation, the section fetch, the closure expansion, the concurrent    *)
(* case fetches and the response.  The code between two awaits runs as one *)
(* step.                                                                   *)
(***************************************************************************)
DataSectionLists ==
    {secs \in UNION {[1..n -> [id : 1..MaxDataId,
                               parent_id : {Null} \cup
                                   {Num(q) : q \in 0..(MaxDataId + 1)}]] :
                        n \in 0..MaxDataId} :
        \A i \in 1..(Len(secs) - 1) : secs[i].id < secs[i + 1].id}

\* Section 1 is a root and every other section a root or a child of 1.
FlatUnderOne(secs) ==
    /\ secs # << >>
    /\ secs[1] = [id |-> 1, parent_id |-> Null]
    /\ \A i \in 2..Len(secs) : secs[i].parent_id \in {Null, Num(1)}

\* The upstream holds id % 3 cases for section id; for the section lists
\* that are flat under section 1 it may also hold a full page and one more
\* case for section 1, which takes a second request to fetch.
DataCaseCounts(secs) ==
    {[id \in IdsOf(secs) |-> id % 3]}
    \cup (IF FlatUnderOne(secs)
          THEN {[id \in IdsOf(secs) |->
                    IF id = 1 THEN casesLimit + 1 ELSE id % 3]}
          ELSE {})

\* The answers of the upstream to a request of a handler.
DataShapes == Shapes

\* Request bodies: folderIds an array of ids in ascending order, an array
\* that holds an id twice, as a number and as a string, a string, a number,
\* null, or missing.
DataBodies ==
    {[folderIds |-> ArrayOf([i \in 1..Len(q) |-> Num(q[i])])] :
        q \in {SortedSeq(S) : S \in SUBSET (1..(MaxDataId + 1))}}
    \cup {[folderIds |-> ArrayOf(<<Num(1), Str("1")>>)],
          [folderIds |-> ArrayOf(<<Num(2), Str("2"), Num(1)>>)]}
    \cup {[folderIds |-> Str("1")], [folderIds |-> Num(1)],
          [folderIds |-> Null], [folderIds |-> Undefined]}

InitData ==
    /\ sections \in DataSectionLists
    /\ caseCount \in DataCaseCounts(sections)
    /\ body \in DataBodies
    /\ pc = "idle"
    /\ response = NoResponse
    /\ parked = NoRequest
    /\ secFetch = NoFetch
    /\ caseFetch = << >>
    /\ calls = << >>
    /\ folderIds = << >>
    /\ TreeIdle
    /\ ClosureIdle
    /\ AggregateIdle
    /\ FrontendIdle

\* A variant of DataRequest that asks the upstream for the sections before
\* it looks at the result of the validation.
DataRequest_fetchFirst ==
    /\ pc = "idle"
    /\ calls' = Append(calls, SectionsCall(0))
    /\ IF ~IsArray(body.folderIds)
       THEN /\ response' = [status |-> 400]
            /\ pc' = "done"
            /\ UNCHANGED <<folderIds, secFetch>>
       ELSE /\ folderIds' = body.folderIds.items
            /\ secFetch' = StartSections
            /\ pc' = "sections"
            /\ UNCHANGED response
    /\ UNCHANGED <<sections, tree, closure, allTestCases, result>>
    /\ UNCHANGED <<caseCount, caseFetch, body, parked>>
    /\ UNCHANGED frontendVars

\* body('folderIds').isArray(), then the handler up to its first await.
DataRequest ==
    /\ pc = "idle"
    /\ IF ~IsArray(body.folderIds)
       THEN /\ response' = [status |-> 400]
            /\ pc' = "done"
            /\ UNCHANGED <<folderIds, secFetch, calls>>
       ELSE /\ folderIds' = body.folderIds.items
            /\ secFetch' = StartSections
            /\ calls' = Append(calls, SectionsCall(0))
            /\ pc' = "sections"
            /\ UNCHANGED response
    /\ UNCHANGED <<sections, tree, closure, allTestCases, result>>
    /\ UNCHANGED <<caseCount, caseFetch, body, parked>>
    /\ UNCHANGED frontendVars

\* details: error.response ? error.response.data : error.message, for the
\* error that fetchAllSections threw on this answer: what the upstream sent
\* with its failure, or the message of the Error thrown on a payload without
\* a sections array.
ErrorDetails(answer) ==
    IF answer.ok THEN Str("Sections data is not an array")
    ELSE Str("upstream failure")

\* res.status(500).json({ error, details }) of the catch of a handler.
ErrorResponse(message, answer) ==
    [status |-> 500,
     body |-> [error |-> Str(message), details |-> ErrorDetails(answer)]]

\* A variant of CatchFetchError that keeps the pages fetched before the error.
CatchFetchError_keepPages(f) == [f EXCEPT !.state = "resolved"]

\* .catch(err => { console.error(...); return []; }) on one case fetch.
CatchFetchError(f) == [f EXCEPT !.state = "caught", !.allTestCases = << >>]

Settled(f) == f.state \in {"resolved", "caught"}

\* Promise.all keeps the value of each promise at the index of the promise;
\* the model also keeps, in settledAt, the rank of the promise in the order
\* in which the promises settled.
Stamp(f, fetches) ==
    IF Settled(f)
    THEN f @@ [settledAt |->
                  1 + Cardinality({j \in 1..Len(fetches) : Settled(fetches[j])})]
    ELSE f

\* A variant of ConcatResults that takes the results in the order in which
\* the fetches settled.
RECURSIVE ConcatResults_completionOrder(_, _)
ConcatResults_completionOrder(fetches, i) ==
    IF i = 0 THEN << >>
    ELSE ConcatResults_completionOrder(fetches, i - 1)
         \o fetches[CHOOSE j \in 1..Len(fetches) :
                        fetches[j].settledAt = i].allTestCases

\* [].concat(...testCasesResults)
RECURSIVE ConcatResults(_, _)
ConcatResults(fetches, i) ==
    IF i = 0 THEN << >>
    ELSE ConcatResults(fetches, i - 1) \o fetches[i].allTestCases

\* Steps 5 and 6 of the handler once Promise.all has resolved.
Respond(fetches) ==
    /\ allTestCases' = ConcatResults(fetches, Len(fetches))
    /\ result' = [done |-> TRUE] @@ Aggregate(allTestCases')
    /\ response' = [status |-> 200, body |-> result']
    /\ pc' = "done"

\* The upstream answers the request of fetchAllSections.  A further page is
\* requested, or the error is caught (500), or the closure is expanded and the
\* case fetches are started (the loop of the expansion may never end).
DataSectionsAnswer ==
    /\ pc = "sections"
    /\ secFetch.state = "pending"
    /\ \E shape \in DataShapes :
          LET answer == AnswerSections(sections,
                                       SectionsCall(secFetch.offset), shape)
              f == secFetch'
              c == closure'
              started == [i \in 1..Len(c.set) |-> StartCases(c.set[i])]
          IN  /\ secFetch' = SectionsIteration(secFetch, answer)
              /\ CASE f.state = "pending" ->
                        /\ calls' = Append(calls, SectionsCall(f.offset))
                        /\ UNCHANGED <<closure, caseFetch, allTestCases,
                                       result, response, pc>>
                   [] f.state = "rejected" ->
                        /\ response' = ErrorResponse(
                              "Error fetching test case statistics from TestRail",
                              answer)
                        /\ pc' = "done"
                        /\ UNCHANGED <<closure, caseFetch, allTestCases,
                                       result, calls>>
                   [] OTHER ->
                        /\ closure' = [done |-> TRUE]
                                         @@ ExpandClosure(f.allSections, folderIds)
                        /\ IF c.diverged
                           THEN /\ pc' = "hung"
                                /\ UNCHANGED <<caseFetch, allTestCases,
                                               result, response, calls>>
                           ELSE /\ caseFetch' = started
                                /\ calls' = calls \o
                                      [i \in 1..Len(c.set) |->
                                          CasesCall(c.set[i], 0)]
                                /\ IF c.set = << >>
                                   THEN Respond(started)
                                   ELSE /\ pc' = "cases"
                                        /\ UNCHANGED <<allTestCases, result,
                                                       response>>
    /\ UNCHANGED <<sections, tree, folderIds, caseCount, body, parked>>
    /\ UNCHANGED frontendVars

\* The upstream answers the request of one of the case fetches, in any order.
\* The fetch asks for its next page, returns, or fails and is caught; when
\* the last fetch has settled the handler aggregates and responds.
DataCasesAnswer ==
    /\ pc = "cases"
    /\ \E i \in 1..Len(caseFetch) : \E shape \in DataShapes :
          /\ caseFetch[i].state = "pending"
          /\ LET f == caseFetch[i]
                 g == CasesIteration(
                         f, AnswerCases(caseCount,
                                        CasesCall(f.sectionId, f.offset), shape))
                 h == IF g.state = "rejected" THEN CatchFetchError(g) ELSE g
             IN  /\ caseFetch' = [caseFetch EXCEPT ![i] = Stamp(h, caseFetch)]
                 /\ calls' = IF caseFetch'[i].state = "pending"
                             THEN Append(calls,
                                         CasesCall(caseFetch'[i].sectionId,
                                                   caseFetch'[i].offset))
                             ELSE calls
                 /\ IF \A j \in 1..Len(caseFetch') : Settled(caseFetch'[j])
                    THEN Respond(caseFetch')
                    ELSE UNCHANGED <<allTestCases, result, response, pc>>
    /\ UNCHANGED <<sections, tree, folderIds, closure, caseCount, secFetch, body, parked>>
    /\ UNCHANGED frontendVars

NextData == DataRequest \/ DataSectionsAnswer \/ DataCasesAnswer

SpecData == InitData /\ [][NextData]_vars

(***************************************************************************)
(* Specification of the coverage request of backend/server.js, the version *)
(* of POST /api/testrail/data that fetches the cases of the ids of         *)
(* folderIds one after the other, each with one request, inside one try.   *)
(***************************************************************************)
\* `${folderId}` in the url of the request.
InUrl(x) ==
    CASE x.k = "number" -> DecimalOf(x.v)
      [] x.k = "string" -> x.v
      [] OTHER -> x.k

\* The request of fetchTestCases(folderId): no offset and no limit.
FolderCasesCall(folderId) == [op |-> "get_cases", section_id |-> InUrl(folderId)]

\* The upstream knows the cases of the sections it holds, and fails for any
\* other section id.
AnswerFolderCases(counts, call, shape) ==
    IF \E id \in DOMAIN counts : DecimalOf(id) = call.section_id
    THEN Answer(shape, "cases",
                UpstreamCases(counts, CHOOSE id \in DOMAIN counts :
                                          DecimalOf(id) = call.section_id))
    ELSE [ok |-> FALSE]

\* fetchTestCases(folderId) from the answer of the upstream to its return or
\* its throw.
fetchTestCases(folderId, answer) ==
    IF ~answer.ok
    THEN [sectionId |-> folderId, state |-> "rejected", allTestCases |-> << >>]
    ELSE LET data == answer.data
             testCases == IF IsArray(data) THEN data
                          ELSE IF Truthy(data) /\ IsArray(Field(data, "cases"))
                               THEN Field(data, "cases")
                               ELSE Undefined
         IN  IF testCases = Undefined
             THEN [sectionId |-> folderId, state |-> "rejected",
                   allTestCases |-> << >>]
             ELSE [sectionId |-> folderId, state |-> "resolved",
                   allTestCases |-> testCases.items]

InitLoop ==
    /\ sections \in DataSectionLists
    /\ caseCount = [id \in IdsOf(sections) |-> id % 3]
    /\ body \in DataBodies
    /\ pc = "loopIdle"
    /\ response = NoResponse
    /\ parked = NoRequest
    /\ secFetch = NoFetch
    /\ caseFetch = << >>
    /\ calls = << >>
    /\ folderIds = << >>
    /\ TreeIdle
    /\ ClosureIdle
    /\ AggregateIdle
    /\ FrontendIdle

\* body('folderIds').isArray(), then the handler up to its first await, or
\* to its response when folderIds is empty.
LoopRequest ==
    /\ pc = "loopIdle"
    /\ IF ~IsArray(body.folderIds)
       THEN /\ response' = [status |-> 400]
            /\ pc' = "done"
            /\ UNCHANGED <<folderIds, calls, allTestCases, result>>
       ELSE /\ folderIds' = body.folderIds.items
            /\ IF folderIds' = << >>
               THEN /\ Respond(<< >>)
                    /\ UNCHANGED calls
               ELSE /\ calls' = Append(calls, FolderCasesCall(folderIds'[1]))
                    /\ pc' = "loop"
                    /\ UNCHANGED <<allTestCases, result, response>>
    /\ UNCHANGED <<sections, tree, closure>>
    /\ UNCHANGED <<caseCount, secFetch, caseFetch, body, parked>>
    /\ UNCHANGED frontendVars

\* The upstream answers the request of fetchTestCases for the folder id the
\* loop stands at.  The error is caught by the catch of the handler (500), or
\* the cases are counted and the loop goes to the next id, or to the response
\* after the last one.
LoopCasesAnswer ==
    /\ pc = "loop"
    /\ \E shape \in DataShapes :
          LET folderId == folderIds[Len(caseFetch) + 1]
              f == fetchTestCases(
                      folderId,
                      AnswerFolderCases(caseCount, FolderCasesCall(folderId),
                                        shape))
          IN  /\ caseFetch' = Append(caseFetch, f)
              /\ IF f.state = "rejected"
                 THEN /\ response' =
                            [status |-> 500,
                             body |-> [error |-> Str(
                               "Error fetching test case statistics from TestRail")]]
                      /\ pc' = "done"
                      /\ UNCHANGED <<allTestCases, result, calls>>
                 ELSE IF Len(caseFetch') < Len(folderIds)
                      THEN /\ calls' = Append(calls, FolderCasesCall(
                                           folderIds[Len(caseFetch') + 1]))
                           /\ UNCHANGED <<allTestCases, result, response, pc>>
                      ELSE /\ Respond(caseFetch')
                           /\ UNCHANGED calls
    /\ UNCHANGED <<sections, tree, folderIds, closure>>
    /\ UNCHANGED <<caseCount, secFetch, body, parked>>
    /\ UNCHANGED frontendVars

NextLoop == LoopRequest \/ LoopCasesAnswer

SpecLoop == InitLoop /\ [][NextLoop]_vars

(***************************************************************************)
(* Specification of the two endpoints, POST /api/testrail/folders and      *)
(* POST /api/testrail/data, against an upstream that holds from no section *)
(* to several pages of sections.                                           *)
(***************************************************************************)
\* Request bodies of the folders endpoint: path missing, a string, a number.
FolderBodies == {[path |-> Undefined], [path |-> Str("suite")], [path |-> Num(1)]}

\* Lengths of the section list of the upstream: less than a page, a full
\* page, a page and one section, and the longest list of the model.
UpstreamSizes == {0, 1, 2, sectionsLimit, sectionsLimit + 1, MaxItems}

InitRequests ==
    /\ \E n \in UpstreamSizes : sections = RootSections(n)
    /\ caseCount = [id \in IdsOf(sections) |-> id % 3]
    /\ \/ body \in DataBodies /\ pc = "idle"
       \/ body \in FolderBodies /\ pc = "folders"
    /\ response = NoResponse
    /\ parked = NoRequest
    /\ secFetch = NoFetch
    /\ caseFetch = << >>
    /\ calls = << >>
    /\ folderIds = << >>
    /\ TreeIdle
    /\ ClosureIdle
    /\ AggregateIdle
    /\ FrontendIdle

\* body('path').optional().isString(), then the handler up to its first await.
FoldersRequest ==
    /\ pc = "folders"
    /\ IF body.path # Undefined /\ body.path.k # "string"
       THEN /\ response' = [status |-> 400]
            /\ pc' = "done"
            /\ UNCHANGED <<secFetch, calls>>
       ELSE /\ secFetch' = StartSections
            /\ calls' = Append(calls, SectionsCall(0))
            /\ pc' = "folderSections"
            /\ UNCHANGED response
    /\ UNCHANGED <<pureVars, caseCount, caseFetch, body, parked>>
    /\ UNCHANGED frontendVars

\* The upstream answers the request of fetchAllSections for the folders
\* endpoint.  A further page is requested, or the error is caught (500), or
\* the tree is built and sent.
FoldersSectionsAnswer ==
    /\ pc = "folderSections"
    /\ secFetch.state = "pending"
    /\ \E shape \in DataShapes :
          LET answer == AnswerSections(sections,
                                       SectionsCall(secFetch.offset), shape)
              f == secFetch'
          IN  /\ secFetch' = SectionsIteration(secFetch, answer)
              /\ CASE f.state = "pending" ->
                        /\ calls' = Append(calls, SectionsCall(f.offset))
                        /\ UNCHANGED <<tree, response, pc>>
                   [] f.state = "rejected" ->
                        /\ response' = ErrorResponse(
                              "Error fetching folder structure from TestRail",
                              answer)
                        /\ pc' = "done"
                        /\ UNCHANGED <<tree, calls>>
                   [] OTHER ->
                        /\ tree' = buildTree(f.allSections)
                        /\ response' = [status |-> 200, body |-> tree']
                        /\ pc' = "done"
                        /\ UNCHANGED calls
    /\ UNCHANGED <<sections, folderIds, closure, allTestCases, result>>
    /\ UNCHANGED <<caseCount, caseFetch, body, parked>>
    /\ UNCHANGED frontendVars

NextRequests ==
    \/ FoldersRequest
    \/ FoldersSectionsAnswer
    \/ DataRequest
    \/ DataSectionsAnswer
    \/ DataCasesAnswer

SpecRequests == InitRequests /\ [][NextRequests]_vars

(***************************************************************************)
(* Specification of two coverage requests in progress at the same time.    *)
(* Node runs one handler at a time, from an await to the next; between two *)
(* awaits of one request the handler of the other may run.  The variables  *)
(* above are those of the call that runs; parked holds those of the other. *)
(***************************************************************************)
\* Sections 1..n in a chain: 1 is a root and i + 1 a child of i.
ChainSections(n) ==
    [i \in 1..n |-> [id |-> i,
                     parent_id |-> IF i = 1 THEN Null ELSE Num(i - 1)]]

\* Request bodies: folderIds an array of section ids in ascending order, or
\* missing.
PairBodies ==
    {[folderIds |-> ArrayOf([i \in 1..Len(q) |-> Num(q[i])])] :
        q \in {SortedSeq(S) : S \in SUBSET (1..MaxPairId)}}
    \cup {[folderIds |-> Undefined]}

\* The variables of a call of the handler that has not run yet.
NewRequest(b) ==
    [body |-> b, pc |-> "idle", response |-> NoResponse, folderIds |-> << >>,
     closure |-> NoClosure, allTestCases |-> << >>, result |-> NoResult,
     secFetch |-> NoFetch, caseFetch |-> << >>]

\* The variables of the call that runs.
Current ==
    [body |-> body, pc |-> pc, response |-> response, folderIds |-> folderIds,
     closure |-> closure, allTestCases |-> allTestCases, result |-> result,
     secFetch |-> secFetch, caseFetch |-> caseFetch]

InitPair ==
    /\ \E n \in 0..MaxPairId : sections = ChainSections(n)
    /\ caseCount \in DataCaseCounts(sections)
    /\ body \in PairBodies
    /\ \E b \in PairBodies : parked = NewRequest(b)
    /\ pc = "idle"
    /\ response = NoResponse
    /\ secFetch = NoFetch
    /\ caseFetch = << >>
    /\ calls = << >>
    /\ folderIds = << >>
    /\ TreeIdle
    /\ ClosureIdle
    /\ AggregateIdle
    /\ FrontendIdle

\* A variant of Resume in which folderIds is one variable of the module that
\* the two calls share.
Resume_sharedFolderIds(cur, prk) == [prk EXCEPT !.folderIds = cur.folderIds]

\* The variables a call finds when it runs again after an await: its own
\* (const and let of the handler's body), whatever the call cur did meanwhile.
Resume(cur, prk) == prk

\* The call that runs reaches an await or its end, and the other call runs.
Switch ==
    /\ parked # NoRequest
    /\ LET r == Resume(Current, parked)
       IN  /\ body' = r.body
           /\ pc' = r.pc
           /\ response' = r.response
           /\ folderIds' = r.folderIds
           /\ closure' = r.closure
           /\ allTestCases' = r.allTestCases
           /\ result' = r.result
           /\ secFetch' = r.secFetch
           /\ caseFetch' = r.caseFetch
    /\ parked' = Current
    /\ UNCHANGED <<sections, tree, caseCount, calls>>
    /\ UNCHANGED frontendVars

NextPair == DataRequest \/ DataSectionsAnswer \/ DataCasesAnswer \/ Switch

SpecPair == InitPair /\ [][NextPair]_vars

(***************************************************************************)
(* Specification of the frontend (App.js): the chart list of App and the   *)
(* handlers that change it.  A handler of a click runs with the state of   *)
(* the last render; the part of buildChart after its await runs with the   *)
(* chartsData of the render in which buildChart was called.  A chart is an *)
(* object: obj is its address, and key names the chart through the copies  *)
(* that buildChart makes of it (the address of its first object).          *)
(***************************************************************************)
\* buildChart is called at most MaxBuilds times with a selection.
MaxBuilds == 3

DefaultTitle == "Automation Coverage Chart"

\* The texts typed in the rename form.
DraftNames == {"", "Sprint 12"}

\* The selections of the section tree.
CheckedLists == {<< >>, <<Str("1")>>}

\* response.data of a request that succeeds: the result of the backend for
\* one case of each category.
ChartData == Aggregate(CaseList(BlockCodes(1, 1, 1)))

\* The chart at an index of a list (indices start at 0).
ChartAt(charts, index) == charts[index + 1]

\* newChart = { ...response.data, title: chartTitle,
\*              candidateTests: response.data.candidateTests || [], noTests: ... }
NewChart(obj, data) ==
    [obj |-> obj, key |-> obj, title |-> DefaultTitle,
     overallCoverage |-> data.overallCoverage,
     candidateTests |-> data.candidateTests,
     noTests |-> data.noTests]

\* chartsData.map((c) => ({ ...c, candidateTests: [], noTests: [] })): new
\* objects, at the addresses after first.
OldCharts(charts, first) ==
    [i \in 1..Len(charts) |->
        [charts[i] EXCEPT !.obj = first + i,
                          !.candidateTests = << >>,
                          !.noTests = << >>]]

\* [newChart, ...oldCharts], oldCharts made of the chartsData that the call
\* of buildChart closed over.
NextCharts(newChart, closed, first) ==
    <<newChart>> \o OldCharts(closed, first)

\* object.title = title, seen through every list that holds the object.
WriteTitle(charts, obj, title) ==
    [i \in 1..Len(charts) |->
        IF charts[i].obj = obj THEN [charts[i] EXCEPT !.title = title]
        ELSE charts[i]]

\* prev.filter((_, i) => i !== index)
WithoutIndex(charts, index) ==
    [i \in 1..(Len(charts) - 1) |->
        IF i <= index THEN charts[i] ELSE charts[i + 1]]

InitFrontend ==
    /\ FrontendIdle
    /\ sections = << >>
    /\ folderIds = << >>
    /\ TreeIdle
    /\ ClosureIdle
    /\ AggregateIdle
    /\ FetchIdle
    /\ HandlerIdle

\* onCheck={setChecked}
OnCheck ==
    /\ \E c \in CheckedLists \ {checked} : checked' = c
    /\ UNCHANGED <<chartsData, loadingChart, editingIndex, draftName>>
    /\ UNCHANGED <<buildVars, historyVars, backendVars>>

\* buildChart up to its await, for a selection that is not empty.
BuildChart ==
    /\ sent < MaxBuilds
    /\ checked # << >>
    /\ loadingChart' = TRUE
    /\ sent' = sent + 1
    /\ builds' = builds \cup {[call |-> sent', chartsData |-> chartsData]}
    /\ UNCHANGED <<checked, chartsData, editingIndex, draftName, nextObj>>
    /\ UNCHANGED <<historyVars, backendVars>>

\* The response of a request arrives: buildChart from its await to its end.
BuildChartDone ==
    /\ \E b \in builds :
          LET newChart == NewChart(nextObj + 1, ChartData)
          IN  /\ chartsData' = NextCharts(newChart, b.chartsData, nextObj + 1)
              /\ nextObj' = nextObj + Len(chartsData')
              /\ built' = built \cup {newChart.key}
              /\ builds' = builds \ {b}
    /\ loadingChart' = FALSE
    /\ UNCHANGED <<checked, editingIndex, draftName, sent, removed, edit>>
    /\ UNCHANGED backendVars

\* A request fails: the catch and the finally of buildChart.
BuildChartFailed ==
    /\ \E b \in builds : builds' = builds \ {b}
    /\ loadingChart' = FALSE
    /\ UNCHANGED <<checked, chartsData, editingIndex, draftName>>
    /\ UNCHANGED <<sent, nextObj, historyVars, backendVars>>

\* startEditingName(index), from the Rename Chart button of a chart.
StartEditingName ==
    /\ \E index \in 0..(Len(chartsData) - 1) :
          /\ editingIndex' = Num(index)
          /\ draftName' = ChartAt(chartsData, index).title
          /\ edit' = [target |-> ChartAt(chartsData, index).key, changed |-> 0]
    /\ UNCHANGED <<checked, chartsData, loadingChart, built, removed>>
    /\ UNCHANGED <<buildVars, backendVars>>

\* The rename form is shown under the chart at editingIndex, if there is one.
FormShown ==
    /\ editingIndex # Null
    /\ editingIndex.v < Len(chartsData)

\* onChange of the input of the rename form.
OnChangeDraft ==
    /\ FormShown
    /\ \E text \in DraftNames \ {draftName} : draftName' = text
    /\ UNCHANGED <<checked, chartsData, loadingChart, editingIndex>>
    /\ UNCHANGED <<buildVars, historyVars, backendVars>>

\* setChartName(index), from the Apply Title button of the rename form: index
\* is editingIndex.  The title is written into the object of the chart.
SetChartName ==
    /\ FormShown
    /\ LET index == editingIndex.v
           chart == ChartAt(chartsData, index)
           title == IF draftName # "" THEN draftName ELSE DefaultTitle
       IN  /\ chartsData' = WriteTitle(chartsData, chart.obj, title)
           /\ builds' = {[b EXCEPT !.chartsData =
                                       WriteTitle(@, chart.obj, title)] :
                            b \in builds}
           /\ edit' = [edit EXCEPT !.changed = chart.key]
    /\ editingIndex' = Null
    /\ draftName' = ""
    /\ UNCHANGED <<checked, loadingChart, sent, nextObj, built, removed>>
    /\ UNCHANGED backendVars

\* removeChart(index), from the Remove Chart button of a chart.
RemoveChart ==
    /\ \E index \in 0..(Len(chartsData) - 1) :
          /\ chartsData' = WithoutIndex(chartsData, index)
          /\ removed' = removed \cup {ChartAt(chartsData, index).key}
    /\ UNCHANGED <<checked, loadingChart, editingIndex, draftName>>
    /\ UNCHANGED <<buildVars, built, edit, backendVars>>

NextFrontend ==
    \/ OnCheck
    \/ BuildChart
    \/ BuildChartDone
    \/ BuildChartFailed
    \/ StartEditingName
    \/ OnChangeDraft
    \/ SetChartName
    \/ RemoveChart

SpecFrontend == InitFrontend /\ [][NextFrontend]_vars

(***************************************************************************)
(* Properties of the tree builder.                                         *)
(***************************************************************************)
\* C1: for a section list with distinct ids and no cycle in the parent
\* pointers, the pre-order flattening of the forest built by buildTree holds
\* exactly the input ids, each id exactly once.
C1_TreeRoundTrip ==
    (tree.built /\ DistinctIds(sections) /\ Acyclic(sections)) =>
        LET flat == Flatten(tree)
        IN  /\ Range(flat) = IdsOf(sections)
            /\ \A i, j \in 1..Len(flat) : flat[i] = flat[j] => i = j

\* A tree has been built from three sections nested two levels deep.
C1_Witness ==
    /\ tree.built
    /\ Acyclic(sections)
    /\ Len(sections) = 3
    /\ \E a, b, c \in IdsOf(sections) :
          /\ tree.sectionMap[a].children = <<b>>
          /\ tree.sectionMap[b].children = <<c>>
          /\ tree.roots = <<a>>

\* Sections whose parent_id is non-null and non-zero and the id of no section.
Orphans(secs) ==
    {secs[i].id : i \in {j \in 1..Len(secs) :
        /\ secs[j].parent_id # Null
        /\ secs[j].parent_id # Num(0)
        /\ secs[j].parent_id.v \notin IdsOf(secs)}}

\* C2: every section whose parent_id is non-null, non-zero and not the id of
\* a section of the input is a root of the built forest.
C2_OrphanIsRoot ==
    tree.built => \A id \in Orphans(sections) : id \in Range(tree.roots)

\* A tree has been built from a list that holds an orphan next to a section
\* with a known parent.
C2_Witness ==
    /\ tree.built
    /\ Orphans(sections) # {}
    /\ \E id \in IdsOf(sections) : tree.sectionMap[id].children # << >>

\* The number of times an id occurs in a list of ids.
Occurrences(ids, id) == Cardinality({i \in 1..Len(ids) : ids[i] = id})

\* C21: for a section list with distinct ids, whatever its parent pointers
\* (orphans, self-parents and cycles included), every input section is in the
\* forest returned by buildTree exactly once: none is dropped and none is
\* there twice.
C21_EverySectionOnce ==
    (tree.built /\ DistinctIds(sections)) =>
        \A id \in IdsOf(sections) : Occurrences(Flatten(tree), id) = 1

\* The position of the section with the given id in a list of distinct ids.
PositionOf(secs, id) == CHOOSE i \in 1..Len(secs) : secs[i].id = id

\* A list of ids is in the relative order of the input list.
InInputOrder(secs, ids) ==
    \A i, j \in 1..Len(ids) :
        i < j => PositionOf(secs, ids[i]) < PositionOf(secs, ids[j])

\* C22: the roots of the forest are in the relative order in which they occur
\* in the input list, and so are the children of every node, also when a
\* child comes before its parent in the input.
C22_InputOrderKept ==
    (tree.built /\ DistinctIds(sections)) =>
        /\ InInputOrder(sections, tree.roots)
        /\ \A id \in IdsOf(sections) :
              InInputOrder(sections, tree.sectionMap[id].children)

\* A tree has been built from a list in which a child comes first, then its
\* parent, then a second child of that parent.
C22_Witness ==
    /\ tree.built
    /\ Len(sections) = 3
    /\ sections[1].parent_id = Num(sections[2].id)
    /\ sections[3].parent_id = Num(sections[2].id)
    /\ tree.roots = <<sections[2].id>>
    /\ tree.sectionMap[sections[2].id].children
          = <<sections[1].id, sections[3].id>>

\* C23: the tree that the recursive builder returns for parentId = null has
\* among its roots every section whose parent_id is null or 0.
C23_NullOrZeroIsRoot ==
    tree.built =>
        \A i \in 1..Len(sections) :
            sections[i].parent_id \in {Null, Num(0)}
                => \E j \in 1..Len(tree.nodes) :
                      tree.nodes[j].id = sections[i].id

(***************************************************************************)
(* Properties of the closure expansion.                                    *)
(***************************************************************************)
\* The ids of allFolderIdsSet.
ClosureIds == {x.v : x \in Range(closure.set)}

\* The ids the request selects, whichever form they are sent in.
SelectedOf(ids) ==
    {n \in NumericRange : Num(n) \in Range(ids) \/ Str(DecimalOf(n)) \in Range(ids)}

\* Sections that have a selected id among their proper ancestors.
DescendantsOfSelected(secs, sel) ==
    {id \in IdsOf(secs) : AncestorIds(secs, id) \cap sel # {}}

AncestorsOfSelected(secs, sel) == UNION {AncestorIds(secs, id) : id \in sel}

ClosureComputed == closure.done /\ ~closure.diverged

\* C3 as stated: the closure holds the selection and is closed under parent
\* and under child: with a section its parent section, and with a section
\* every child section.
C3_ClosedBothWays ==
    ClosureComputed =>
        /\ SelectedOf(folderIds) \subseteq ClosureIds
        /\ \A e \in ParentPtr(sections) :
              (e[1] \in ClosureIds /\ e[2] \in IdsOf(sections)) => e[2] \in ClosureIds
        /\ \A e \in ParentPtr(sections) :
              (e[2] \in ClosureIds /\ e[2] \in IdsOf(sections))
                  => e[1] \in ClosureIds

\* C3 amended: the closure holds the selection, is closed under parent, and
\* holds every child of a section that is selected or has a selected
\* ancestor; the children of a section that is in the closure only as an
\* ancestor of a selected id need not be in it.
C3_ClosedUpAndBelowSelection ==
    ClosureComputed =>
        LET sel == SelectedOf(folderIds)
        IN  /\ sel \subseteq ClosureIds
            /\ \A e \in ParentPtr(sections) :
                  (e[1] \in ClosureIds /\ e[2] \in IdsOf(sections))
                      => e[2] \in ClosureIds
            /\ \A e \in ParentPtr(sections) :
                  (e[2] \in sel \cup DescendantsOfSelected(sections, sel))
                      => e[1] \in ClosureIds

\* The closure has been computed for a selected section that has a parent
\* section and a child section, both in the closure.
C3_Witness ==
    /\ ClosureComputed
    /\ \E s \in SelectedOf(folderIds) \cap IdsOf(sections) :
          /\ \E e \in ParentPtr(sections) :
                e[1] = s /\ e[2] \in IdsOf(sections) /\ e[2] \in ClosureIds
          /\ \E e \in ParentPtr(sections) : e[2] = s /\ e[1] \in ClosureIds

\* C4: for an acyclic section list the expansion ends and the closure is
\* exactly the selected ids, the ids reached from them by parent pointers,
\* and the sections that have a selected id among their proper ancestors.
C4_ClosureExact ==
    (closure.done /\ Acyclic(sections)) =>
        LET sel == SelectedOf(folderIds)
        IN  /\ ~closure.diverged
            /\ ClosureIds = sel \cup AncestorsOfSelected(sections, sel)
                                \cup DescendantsOfSelected(sections, sel)

\* The closure has been computed for a selected section whose parent has
\* another child, which stays out of the closure.
C4_Witness ==
    /\ closure.done
    /\ Acyclic(sections)
    /\ \E s \in SelectedOf(folderIds) : \E e, f \in ParentPtr(sections) :
          /\ e[1] = s
          /\ e[2] \in IdsOf(sections)
          /\ f[2] = e[2]
          /\ f[1] # s
          /\ f[1] \notin ClosureIds
          /\ e[2] \in ClosureIds

(***************************************************************************)
(* Properties of the aggregation.                                          *)
(***************************************************************************)
\* The cases of a list whose automation status is the code 1, sent as the
\* number 1 or as the string "1".
CodeOneCases(cases) ==
    {i \in 1..Len(cases) : cases[i].custom_automation \in {Num(1), Str("1")}}

\* C5: the three counts add up to the number of cases fetched, and every
\* case whose automation status code is 1 is counted once, in Yes: Yes is at
\* least the number of such cases and no such case is listed as Automation
\* Candidate or No.
C5_CountsAddUp ==
    result.done =>
        /\ result.totalCounts[Yes] + result.totalCounts[Candidate]
              + result.totalCounts[No] = Len(allTestCases)
        /\ result.totalCounts[Yes] = Cardinality(CodeOneCases(allTestCases))
        /\ \A i \in CodeOneCases(allTestCases) :
              /\ Entry(allTestCases[i]) \notin Range(result.candidateTests)
              /\ Entry(allTestCases[i]) \notin Range(result.noTests)

\* An aggregation over cases of all three categories, one of them sent with
\* the code 1 as a string.
C5_Witness ==
    /\ result.done
    /\ \A c \in Categories : result.totalCounts[c] > 0
    /\ \E i \in 1..Len(allTestCases) :
          allTestCases[i].custom_automation = Str("1")

\* The number of tenths nearest to count / total * 100.
IsNearestTenth(n, count, total) ==
    LET d == n * total - 1000 * count
    IN  (IF d < 0 THEN 0 - 2 * d ELSE 2 * d) <= total

\* The two numbers of tenths around count / total * 100.
NearTenths(count, total) ==
    {(1000 * count) \div total, (1000 * count) \div total + 1}

\* C6: with a total above zero each percentage is the string of
\* count / total * 100 rounded to one decimal, overallCoverage is the Yes
\* percentage, and counts 2, 1, 1 give "50.0", "25.0", "25.0" and "50.0".
C6_Percentages ==
    (result.done /\ Len(allTestCases) > 0) =>
        /\ \A c \in Categories :
              \E n \in NearTenths(result.totalCounts[c], Len(allTestCases)) :
                 /\ IsNearestTenth(n, result.totalCounts[c], Len(allTestCases))
                 /\ result.percentages[c] = Str(Tenths(n))
        /\ result.overallCoverage = result.percentages[Yes]
        /\ (/\ result.totalCounts[Yes] = 2
            /\ result.totalCounts[Candidate] = 1
            /\ result.totalCounts[No] = 1)
           => /\ result.percentages[Yes] = Str("50.0")
              /\ result.percentages[Candidate] = Str("25.0")
              /\ result.percentages[No] = Str("25.0")
              /\ result.overallCoverage = Str("50.0")

\* An aggregation with counts Yes 2, Automation Candidate 1, No 1.
C6_Witness ==
    /\ result.done
    /\ result.totalCounts[Yes] = 2
    /\ result.totalCounts[Candidate] = 1
    /\ result.totalCounts[No] = 1
    /\ result.overallCoverage = Str("50.0")

\* The category of an automation code by its numeric value, for the codes
\* of the model: 1, 2 or 3 as a number or as a decimal string, or another
\* value (0).
CodeOf(x) ==
    IF x \in {Num(1), Str("1")} THEN 1
    ELSE IF x \in {Num(2), Str("2")} THEN 2
    ELSE IF x \in {Num(3), Str("3")} THEN 3
    ELSE 0

CasesWithCodes(cases, codes) ==
    {i \in 1..Len(cases) : CodeOf(cases[i].custom_automation) \in codes}

\* C18: every case is classified, by the numeric value of its automation
\* status alone: 1 is counted in Yes and listed nowhere, 3 is counted and
\* listed in Automation Candidate, 2 and every other or missing value is
\* counted and listed in No; "1", "2" and "3" go where 1, 2 and 3 go.
C18_ClassificationTotal ==
    result.done =>
        /\ result.totalCounts[Yes]
              = Cardinality(CasesWithCodes(allTestCases, {1}))
        /\ result.totalCounts[Candidate]
              = Cardinality(CasesWithCodes(allTestCases, {3}))
        /\ result.totalCounts[No]
              = Cardinality(CasesWithCodes(allTestCases, {2, 0}))
        /\ \A i \in 1..Len(allTestCases) :
              LET e == [id |-> allTestCases[i].id,
                        title |-> allTestCases[i].title]
                  code == CodeOf(allTestCases[i].custom_automation)
              IN  /\ e \in Range(result.candidateTests) <=> code = 3
                  /\ e \in Range(result.noTests) <=> code \in {2, 0}

\* An aggregation over the codes "1", "2" and "3" sent as strings and a
\* case without a code.
C18_Witness ==
    /\ result.done
    /\ Len(allTestCases) = 4
    /\ {allTestCases[i].custom_automation : i \in 1..4}
          = {Str("1"), Str("2"), Str("3"), Undefined}
    /\ result.totalCounts[Yes] = 1
    /\ result.totalCounts[Candidate] = 1
    /\ result.totalCounts[No] = 2

\* C27: candidateTests holds exactly one {id, title} entry for every case
\* whose code is 3 and noTests exactly one for every case whose code is
\* neither 1 nor 3; a case of code 1 has no entry in either list, no case has
\* an entry in both, and the lengths of the two lists are the counts of
\* Automation Candidate and of No.
C27_ListsMatchCounts ==
    result.done =>
        /\ Len(result.candidateTests) = result.totalCounts[Candidate]
        /\ Len(result.noTests) = result.totalCounts[No]
        /\ \A i \in 1..Len(allTestCases) :
              LET e == [id |-> allTestCases[i].id,
                        title |-> allTestCases[i].title]
                  code == CodeOf(allTestCases[i].custom_automation)
              IN  /\ Occurrences(result.candidateTests, e)
                        = IF code = 3 THEN 1 ELSE 0
                  /\ Occurrences(result.noTests, e)
                        = IF code \in {2, 0} THEN 1 ELSE 0

\* An aggregation over a case of each of the codes 1, 3 and 2 and a case
\* with another code: one candidate entry and two No entries.
C27_Witness ==
    /\ result.done
    /\ Len(allTestCases) = 4
    /\ {CodeOf(allTestCases[i].custom_automation) : i \in 1..4} = {0, 1, 2, 3}
    /\ Len(result.candidateTests) = 1
    /\ Len(result.noTests) = 2
    /\ result.totalCounts[Yes] = 1

\* The value of a percentage of the result in tenths: the number 0 of an
\* empty result, or the number of tenths that its string writes (-1 when
\* the string writes neither of the two numbers around count / total * 100).
InTenths(p, count, total) ==
    IF p.k = "number" THEN 10 * p.v
    ELSE IF \E n \in NearTenths(count, total) : p = Str(Tenths(n))
         THEN CHOOSE n \in NearTenths(count, total) : p = Str(Tenths(n))
         ELSE 0 - 1

SumInTenths(r, total) ==
    InTenths(r.percentages[Yes], r.totalCounts[Yes], total)
    + InTenths(r.percentages[Candidate], r.totalCounts[Candidate], total)
    + InTenths(r.percentages[No], r.totalCounts[No], total)

\* C19 as stated: in every result the three percentages sum to a value
\* between 99.9 and 100.1.
C19_SumNearHundred ==
    result.done => SumInTenths(result, Len(allTestCases)) \in 999..1001

\* C19: in every result computed from at least one case the three
\* percentages, each rounded on its own, sum to a value between 99.9 and
\* 100.1; in the result of no case they are the number 0 and sum to 0.
C19_SumNearHundredOrZero ==
    result.done =>
        IF Len(allTestCases) > 0
        THEN SumInTenths(result, Len(allTestCases)) \in 999..1001
        ELSE /\ \A c \in Categories : result.percentages[c] = Num(0)
             /\ SumInTenths(result, 1) = 0

\* An aggregation whose percentages, "16.7", "16.7" and "66.7", sum to 100.1.
C19_Witness ==
    /\ result.done
    /\ result.totalCounts[Yes] = 1
    /\ result.totalCounts[Candidate] = 1
    /\ result.totalCounts[No] = 4
    /\ result.percentages[Yes] = Str("16.7")
    /\ result.percentages[No] = Str("66.7")
    /\ SumInTenths(result, Len(allTestCases)) = 1001

(***************************************************************************)
(* Properties of the paginated fetches.                                    *)
(***************************************************************************)
\* C9: fetchAllSections issues its requests one after the other, at offsets
\* 0, 250, 500, ...; against an upstream of k full pages and a partial one it
\* returns after exactly k + 1 requests with all batches in page order, so
\* after exactly two requests for one full page and a partial one.
C9_SectionsPagination ==
    secFetch.state \in {"pending", "resolved"} =>
        LET k == Len(sections) \div sectionsLimit
        IN  /\ \A i \in 1..Len(calls) :
                  calls[i] = SectionsCall(sectionsLimit * (i - 1))
            /\ secFetch.state = "pending" =>
                  /\ Len(calls) = Len(secFetch.allSections) \div sectionsLimit + 1
                  /\ Len(calls) <= k + 1
            /\ secFetch.state = "resolved" =>
                  /\ Len(calls) = k + 1
                  /\ secFetch.allSections = sections
                  /\ (k = 1 => Len(calls) = 2)

\* fetchAllSections has returned after a full page and a partial page.
C9_Witness ==
    /\ secFetch.state = "resolved"
    /\ Len(sections) > sectionsLimit
    /\ Len(sections) < 2 * sectionsLimit
    /\ Len(calls) = 2
    /\ secFetch.allSections = sections

\* C10: fetchTestCasesForSection asks for the next page exactly while the
\* page just returned is full, and stops after the first partial or empty
\* page; its result is all cases of the section, each once, in order.
C10_CasesPagination ==
    (caseFetch # << >> /\ caseFetch[1].state \in {"pending", "resolved"}) =>
        LET all == UpstreamCases(caseCount, 1)
            f == caseFetch[1]
            lastPage == Page(all, calls[Len(calls)].offset, casesLimit)
        IN  /\ \A i \in 1..Len(calls) :
                  calls[i] = CasesCall(Num(1), casesLimit * (i - 1))
            /\ f.state = "pending" =>
                  /\ f.allTestCases = SubSeq(all, 1, Len(f.allTestCases))
                  /\ Len(f.allTestCases) = casesLimit * (Len(calls) - 1)
            /\ f.state = "resolved" =>
                  /\ f.allTestCases = all
                  /\ Len(lastPage) < casesLimit
                  /\ Len(calls) = Len(all) \div casesLimit + 1

\* fetchTestCasesForSection has returned after a full page and an empty page.
C10_Witness ==
    /\ caseFetch # << >>
    /\ caseFetch[1].state = "resolved"
    /\ Len(caseFetch[1].allTestCases) = casesLimit
    /\ Len(calls) = 2
    /\ calls[2].offset = casesLimit

(***************************************************************************)
(* Properties of the coverage request.                                     *)
(***************************************************************************)
EmptySelection == body.folderIds = ArrayOf(<< >>)

CaseFetchCalls == {i \in 1..Len(calls) : calls[i].op = "get_cases"}

\* C7: a coverage request whose folderIds is an empty array never issues a
\* get_cases call to the upstream, and once the section list has been
\* fetched it is answered with 200 and a result whose three counts are 0,
\* whose three percentages and overall coverage are the number 0, and whose
\* candidateTests and noTests lists are empty.
C7_EmptySelection ==
    EmptySelection =>
        /\ CaseFetchCalls = {}
        /\ (pc = "done" /\ secFetch.state = "resolved") =>
              /\ response.status = 200
              /\ \A c \in Categories :
                    /\ response.body.totalCounts[c] = 0
                    /\ response.body.percentages[c] = Num(0)
              /\ response.body.overallCoverage = Num(0)
              /\ response.body.candidateTests = << >>
              /\ response.body.noTests = << >>

\* A request with an empty folderIds array has been answered while the
\* upstream holds two sections, one of them with cases.
C7_Witness ==
    /\ EmptySelection
    /\ pc = "done"
    /\ response.status = 200
    /\ Len(sections) = 2
    /\ \E id \in DOMAIN caseCount : caseCount[id] > 0
    /\ Len(calls) = 1

\* What the case fetch of the i-th id of the closure must contribute: nothing
\* when it failed, the cases the upstream holds for the section otherwise.
Contribution(i) ==
    IF caseFetch[i].state = "caught" THEN << >>
    ELSE UpstreamCases(caseCount, closure.set[i].v)

RECURSIVE Contributions(_)
Contributions(n) ==
    IF n = 0 THEN << >> ELSE Contributions(n - 1) \o Contribution(n)

\* C8: when the closure has been expanded and every case fetch has settled,
\* the response is 200 with a result; a fetch that failed, on any of its
\* pages, contributes no case, every other fetch contributes all the cases
\* of its section, and the result aggregates exactly these contributions,
\* in the order of the closure.
C8_PartialFailure ==
    (pc = "done" /\ closure.done) =>
        /\ response.status = 200
        /\ Len(caseFetch) = Len(closure.set)
        /\ \A i \in 1..Len(caseFetch) :
              /\ caseFetch[i].sectionId = closure.set[i]
              /\ caseFetch[i].state \in {"caught", "resolved"}
              /\ caseFetch[i].state = "resolved" =>
                    closure.set[i].v \in DOMAIN caseCount
        /\ allTestCases = Contributions(Len(caseFetch))
        /\ response.body.totalCounts[Yes] + response.body.totalCounts[Candidate]
              + response.body.totalCounts[No] = Len(allTestCases)
        /\ Len(response.body.candidateTests)
              = response.body.totalCounts[Candidate]
        /\ Len(response.body.noTests) = response.body.totalCounts[No]

\* A request has been answered with 200 after exactly one case fetch failed,
\* on its second page, while the fetch of the other section of the closure
\* returned its cases.
C8_Witness ==
    /\ pc = "done"
    /\ response.status = 200
    /\ Len(caseFetch) = 2
    /\ \E i \in 1..Len(caseFetch) :
          /\ caseFetch[i].state = "caught"
          /\ caseFetch[i].offset = casesLimit
          /\ \A j \in 1..Len(caseFetch) :
                j # i => /\ caseFetch[j].state = "resolved"
                         /\ caseFetch[j].allTestCases # << >>
    /\ allTestCases # << >>

\* C11: a coverage request whose folderIds is missing or is not an array is
\* answered with 400, and no request is ever made to the upstream for it,
\* neither for sections nor for cases.
C11_MalformedRejected ==
    ~IsArray(body.folderIds) =>
        /\ calls = << >>
        /\ secFetch = NoFetch
        /\ caseFetch = << >>
        /\ pc \in {"idle", "done"}
        /\ pc = "done" => response = [status |-> 400]

\* A request whose folderIds is a string has been answered while the
\* upstream holds sections.
C11_Witness ==
    /\ body.folderIds = Str("1")
    /\ pc = "done"
    /\ response.status = 400
    /\ sections # << >>

\* C12: when a page of the section list fails, the first or a later one,
\* the request is answered with 500 and a body of error and details, no tree
\* is built, no closure or result is computed and no case fetch is made;
\* a tree or a result is only ever sent with 200 and built from all the
\* sections the upstream holds.
C12_SectionFailureIsFatal ==
    /\ secFetch.state = "rejected" =>
          /\ pc = "done"
          /\ response.status = 500
          /\ DOMAIN response.body = {"error", "details"}
          /\ tree = NoTree
          /\ closure = NoClosure
          /\ result = NoResult
          /\ allTestCases = << >>
          /\ caseFetch = << >>
          /\ CaseFetchCalls = {}
    /\ (tree.built \/ result.done) =>
          /\ pc = "done"
          /\ response.status = 200
          /\ secFetch.state = "resolved"
          /\ secFetch.allSections = sections

\* The folders endpoint has answered 500 after the second page of the
\* section list failed, the first page having been fetched.
C12_Witness ==
    /\ "path" \in DOMAIN body
    /\ pc = "done"
    /\ response.status = 500
    /\ secFetch.state = "rejected"
    /\ Len(secFetch.allSections) = sectionsLimit
    /\ Len(calls) = 2
    /\ Len(sections) > sectionsLimit

\* C13: a payload that is a bare array, or the known object around an array,
\* is accepted by both fetches: the step a fetch takes on such an answer is
\* never its failure.
C13_ArrayPayloadAccepted ==
    [][\A shape \in {"object", "array"} :
          /\ (/\ secFetch.state = "pending"
              /\ secFetch' = SectionsIteration(
                     secFetch,
                     AnswerSections(sections, SectionsCall(secFetch.offset),
                                    shape)))
                => secFetch'.state # "rejected"
          /\ (/\ caseFetch # << >>
              /\ caseFetch[1].state = "pending"
              /\ caseFetch' = <<CasesIteration(
                     caseFetch[1],
                     AnswerCases(caseCount,
                                 CasesCall(caseFetch[1].sectionId,
                                           caseFetch[1].offset), shape))>>)
                => caseFetch'[1].state # "rejected"]_vars

\* C14: the closure expansion ends for every section list and every
\* selection, a list with a cycle of parent pointers included: no walk
\* meets the same section id twice.
C14_ExpansionTerminates == closure.done => ~closure.diverged

\* C15: a coverage request gets exactly one response.  Once every upstream
\* call made for it has returned or failed, it has been answered with 400,
\* 200 or 500, and a response that was sent is never followed by another.
C15_ExactlyOneResponse ==
    /\ [](( /\ pc # "idle"
            /\ secFetch.state # "pending"
            /\ \A i \in 1..Len(caseFetch) : Settled(caseFetch[i]))
          => (pc = "done" /\ response.status \in {200, 400, 500}))
    /\ [][response # NoResponse => response' = response]_vars

\* What the i-th case fetch of the call r must contribute when r is alone.
ContributionOf(r, i) ==
    IF r.caseFetch[i].state = "caught" THEN << >>
    ELSE UpstreamCases(caseCount, r.closure.set[i].v)

RECURSIVE ContributionsOf(_, _)
ContributionsOf(r, n) ==
    IF n = 0 THEN << >> ELSE ContributionsOf(r, n - 1) \o ContributionOf(r, n)

\* The result sent by the call r is the one of a request with the body of r
\* that runs alone against the same upstream and meets the same failures.
AnsweredAsAlone(r) ==
    (r.pc = "done" /\ r.response.status = 200) =>
        LET alone == ExpandClosure(sections, r.body.folderIds.items)
        IN  /\ r.folderIds = r.body.folderIds.items
            /\ r.closure.set = alone.set
            /\ Len(r.caseFetch) = Len(alone.set)
            /\ \A k \in 1..Len(r.caseFetch) :
                  r.caseFetch[k].sectionId = alone.set[k]
            /\ r.allTestCases = ContributionsOf(r, Len(r.caseFetch))
            /\ r.response.body = [done |-> TRUE] @@ Aggregate(r.allTestCases)

\* C16: with two coverage requests in progress and their upstream calls
\* answered in any order, the result of each is the one it gets when it runs
\* alone against the same upstream: its own selection, closure, case lists
\* and counts, nothing of the other request.
C16_RequestsIsolated ==
    /\ AnsweredAsAlone(Current)
    /\ parked # NoRequest => AnsweredAsAlone(parked)

\* Two requests with different selections have both been answered with 200
\* and different results, the section fetch of the second having started
\* before the first was answered.
C16_Witness ==
    /\ parked # NoRequest
    /\ pc = "done" /\ parked.pc = "done"
    /\ response.status = 200 /\ parked.response.status = 200
    /\ body # parked.body
    /\ allTestCases # << >>
    /\ response.body # parked.response.body
    /\ Len(calls) >= 2
    /\ calls[1].op = "get_sections" /\ calls[2].op = "get_sections"

\* The entries of the cases of a list whose automation code is c, in the
\* order of the list.
EntriesWithCode(cases, c) ==
    LET HasCode(t) == t.custom_automation = Num(c)
        picked == SelectSeq(cases, HasCode)
    IN  [k \in 1..Len(picked) |-> [id |-> picked[k].id, title |-> picked[k].title]]

\* C17: whatever the order in which the case fetches of a request settle,
\* candidateTests and noTests list their cases by the position of the
\* section id in the closure set, then by the position of the case in the
\* list fetched for that section.
C17_ListsInClosureOrder ==
    (pc = "done" /\ response.status = 200) =>
        LET expected == Contributions(Len(caseFetch))
        IN  /\ response.body.candidateTests = EntriesWithCode(expected, 3)
            /\ response.body.noTests = EntriesWithCode(expected, 2)

\* A request has been answered after the fetch of the second section of its
\* closure returned before the fetch of the first one, both with cases that
\* go to noTests.
C17_Witness ==
    /\ pc = "done"
    /\ response.status = 200
    /\ Len(caseFetch) = 2
    /\ caseFetch[1].state = "resolved" /\ caseFetch[2].state = "resolved"
    /\ caseFetch[2].settledAt < caseFetch[1].settledAt
    /\ EntriesWithCode(caseFetch[1].allTestCases, 2) # << >>
    /\ EntriesWithCode(caseFetch[2].allTestCases, 2) # << >>
    /\ response.body.noTests =
          EntriesWithCode(caseFetch[1].allTestCases, 2)
          \o EntriesWithCode(caseFetch[2].allTestCases, 2)

\* C20: every section id of the closure set is in it once and gets exactly
\* one case fetch, which starts with one request at offset 0, and no case
\* fetch is made for another id; so no case is in the aggregated list
\* twice, also when folderIds holds an id twice, as a number and as a
\* string, or holds a section together with its ancestor or descendant.
C20_OneFetchPerSection ==
    (closure.done /\ ~closure.diverged) =>
        /\ \A i, j \in 1..Len(closure.set) :
              closure.set[i] = closure.set[j] => i = j
        /\ Len(caseFetch) = Len(closure.set)
        /\ \A i \in 1..Len(closure.set) :
              /\ caseFetch[i].sectionId = closure.set[i]
              /\ Cardinality({k \in 1..Len(calls) :
                                 calls[k] = CasesCall(closure.set[i], 0)}) = 1
        /\ \A k \in CaseFetchCalls : calls[k].section_id \in Range(closure.set)
        /\ pc = "done" =>
              Cardinality({allTestCases[k].id : k \in 1..Len(allTestCases)})
                 = Len(allTestCases)

\* A request for section 2 as a number and as a string and for its parent 1
\* has been answered from one fetch of the cases of each of the two.
C20_Witness ==
    /\ body.folderIds = ArrayOf(<<Num(2), Str("2"), Num(1)>>)
    /\ Len(sections) = 2
    /\ sections[2] = [id |-> 2, parent_id |-> Num(1)]
    /\ pc = "done"
    /\ response.status = 200
    /\ closure.set = <<Num(2), Num(1)>>
    /\ Len(allTestCases) = caseCount[1] + caseCount[2]
    /\ Len(allTestCases) > casesLimit

\* C26: every id for which a case fetch is issued is one of the selected
\* folder ids or the id of a section of the fetched section list; the upward
\* walk adds no id that the parent map does not hold, such as a parent_id
\* that is the id of no section.
C26_OnlyKnownIdsFetched ==
    \A k \in CaseFetchCalls :
        \/ calls[k].section_id \in Range(MapNumber(folderIds))
        \/ /\ IsNum(calls[k].section_id)
           /\ calls[k].section_id.v \in IdsOf(secFetch.allSections)

\* C26 amended: every id for which a case fetch is issued is one of the
\* selected folder ids, or the id of a section of the fetched section list,
\* or the non-null, non-zero parent_id of a section of the closure set; the
\* upward walk adds such a parent_id also when it is the id of no section,
\* and stops there.
C26_OnlyKnownOrParentIdsFetched ==
    \A k \in CaseFetchCalls :
        \/ calls[k].section_id \in Range(MapNumber(folderIds))
        \/ /\ IsNum(calls[k].section_id)
           /\ calls[k].section_id.v \in IdsOf(secFetch.allSections)
        \/ /\ Truthy(calls[k].section_id)
           /\ \E i \in 1..Len(secFetch.allSections) :
                 /\ secFetch.allSections[i].parent_id = calls[k].section_id
                 /\ Num(secFetch.allSections[i].id) \in Range(closure.set)

\* A request has been answered after a case fetch for the parent_id of a
\* selected section, which is the id of no section and was not selected.
C26_Witness ==
    /\ pc = "done"
    /\ response.status = 200
    /\ \E k \in CaseFetchCalls : \E i \in 1..Len(secFetch.allSections) :
          /\ secFetch.allSections[i].parent_id = calls[k].section_id
          /\ Num(secFetch.allSections[i].id) \in Range(MapNumber(folderIds))
          /\ calls[k].section_id \notin Range(MapNumber(folderIds))
          /\ calls[k].section_id.v \notin IdsOf(secFetch.allSections)

(***************************************************************************)
(* Properties of the coverage request of backend/server.js.                *)
(***************************************************************************)
\* The cases that the fetch of the i-th folder id brought, none if it failed.
LoopContribution(i) ==
    IF i <= Len(caseFetch) /\ caseFetch[i].state = "resolved"
    THEN caseFetch[i].allTestCases
    ELSE << >>

RECURSIVE LoopContributions(_)
LoopContributions(n) ==
    IF n = 0 THEN << >>
    ELSE LoopContributions(n - 1) \o LoopContribution(n)

\* C24: a request with a well-formed folderIds is answered 200 also when the
\* fetch of the cases of one of its folder ids fails: the result counts no
\* case for that id and the cases of all the other ids.
C24_FolderFailureTolerated ==
    (pc = "done" /\ IsArray(body.folderIds)) =>
        /\ response.status = 200
        /\ response.body =
              [done |-> TRUE] @@ Aggregate(LoopContributions(Len(folderIds)))

\* The section ids for which the handler asked the upstream for cases.
LoopFetchedIds ==
    {n \in NumericRange :
        \E k \in 1..Len(calls) :
            calls[k].op = "get_cases" /\ calls[k].section_id = DecimalOf(n)}

\* C25: when the request is answered 200, the cases of every section that is
\* a descendant or an ancestor of a selected folder id have been fetched, not
\* only those of the ids of folderIds.
C25_ClosureFetched ==
    (pc = "done" /\ response.status = 200) =>
        LET sel == SelectedOf(folderIds)
        IN  /\ sel \subseteq LoopFetchedIds
            /\ DescendantsOfSelected(sections, sel) \subseteq LoopFetchedIds
            /\ (AncestorsOfSelected(sections, sel) \cap IdsOf(sections))
                  \subseteq LoopFetchedIds

(***************************************************************************)
(* Properties of the frontend.                                             *)
(***************************************************************************)
\* The charts of chartsData, in order.
ChartKeys == [i \in 1..Len(chartsData) |-> chartsData[i].key]

\* C28: every buildChart whose request succeeded added exactly one chart to
\* chartsData and removed none: the list holds, once each, the charts built
\* so far that were not removed (n charts after n successful builds and no
\* removal), also when buildChart calls overlap, and a chart that was removed
\* while a build was in flight is not in the list again.
C28_OneChartPerBuild ==
    /\ Range(ChartKeys) = built \ removed
    /\ \A k \in built \ removed : Occurrences(ChartKeys, k) = 1

\* C29: loadingChart is true exactly while at least one buildChart request is
\* in flight, whether the requests succeed or fail and also when several
\* buildChart calls overlap.
C29_LoadingWhileInFlight == loadingChart <=> builds # {}

\* C30: the setChartName that follows a startEditingName changes the title of
\* the chart that startEditingName was called for, whatever removeChart or
\* buildChart did to the positions of the charts between the two calls.
C30_RenamesEditedChart == edit.changed \in {0, edit.target}

=============================================================================
